---- MODULE Spec2Model ----
\* Request authentication of go-ap/auth: the actor resolver of headers.go /
\* middleware.go (LoadActorFromRequest, LoadActorFromKeyIRI, LoadRemoteKey,
\* the bearer verifier) and the HTTP-signature verifier with local-then-remote
\* retry (keyLoader.Verify).
EXTENDS Integers, Sequences, FiniteSets, TLC

VARIABLES cfg, pc, op, req, iri, env, ret, prev, kl, fetch, logCtx, bdg, fst

vars == <<cfg, pc, op, req, iri, env, ret, prev, kl, fetch, logCtx, bdg, fst>>

\* ------------------------------------------------------------------ bounds
MaxIgnore == 1
\* the longest credential in a logged header
MaxCred == 3
\* the latest time of a call to the store
MaxNow == 2

\* ------------------------------------------------------------------ IRIs
\* An IRI is modelled by the parts the code looks at: host, path segments and
\* fragment.
MkIRI(h, p, f) == [host |-> h, path |-> p, frag |-> f]

NoIRI == MkIRI("", <<>>, "")
PublicNS == MkIRI("www.w3.org", <<"ns", "activitystreams">>, "Public")
Jdoe == MkIRI("example.com", <<"jdoe">>, "")
JdoeMain == MkIRI("example.com", <<"jdoe">>, "main")
JdoeKey == MkIRI("example.com", <<"jdoe", "key">>, "")
Mallory == MkIRI("evil.example", <<"mallory">>, "")
MalloryMain == MkIRI("evil.example", <<"mallory">>, "main")
EvilHost == MkIRI("evil.example", <<>>, "")

\* iri.URL() fails for the empty IRI
URLErr(i) == i = NoIRI

StripFragment_Keep(i) == i

\* u.Fragment = "" ; iri = vocab.IRI(u.String())
StripFragment(i) == [i EXCEPT !.frag = ""]

IsInfix(s, t) ==
    \E k \in 0..(Len(t) - Len(s)) : \A j \in 1..Len(s) : t[k + j] = s[j]

\* vocab.IRI.Contains(what, false): same host and the path contains what's path
Contains(i, what) == i.host = what.host /\ IsInfix(what.path, i.path)

\* ------------------------------------------------------------------ keys, actors
\* PublicKeyPem by what decoding makes of it: enc is the DER encoding inside the
\* PEM block ("none": no PEM block at all), typ the key type, mat the key pair.
MkPem(e, t, m) == [enc |-> e, typ |-> t, mat |-> m]
NoPem == MkPem("none", "none", "none")
RSA1 == MkPem("pkix", "rsa", "k1")
RSA2 == MkPem("pkix", "rsa", "k2")
RSA1PKCS1 == MkPem("pkcs1", "rsa", "k1")
DSA1 == MkPem("pkix", "dsa", "k1")

MkKey(i, o, p) == [id |-> i, owner |-> o, pem |-> p]
ZeroKey == MkKey(NoIRI, NoIRI, NoPem)

MkActor(i, t, k) == [id |-> i, type |-> t, key |-> k]
ZeroActor == MkActor(NoIRI, "", ZeroKey)
AnonymousActor == MkActor(PublicNS, "Actor", ZeroKey)

\* pointers: nil or a value
Ptr(x) == [nil |-> FALSE, v |-> x]
NilActor == [nil |-> TRUE, v |-> ZeroActor]
NilKey == [nil |-> TRUE, v |-> ZeroKey]

\* ------------------------------------------------------------------ errors
\* An error is the chain of its kinds, outermost first; <<>> is nil.
NoErr == <<>>
Newf == <<"Err">>
Wrap(kind, err) == <<kind>> \o err
Annotatef(err) == Wrap("Err", err)
Kind(err) == IF err = NoErr THEN "nil" ELSE Head(err)
IsForbidden(err) == Kind(err) = "Forbidden"
IsNotModified(err) == Kind(err) = "NotModified"

\* errors.NewFromStatus
StatusKind(s) ==
    CASE s = 403 -> "Forbidden"
      [] s = 404 -> "NotFound"
      [] s = 304 -> "NotModified"
      [] s = 410 -> "Gone"
      [] OTHER -> "Err"

\* ------------------------------------------------------------------ items
\* vocab.Item as Load / CtxLoadIRI return it: an actor, another object, a
\* collection (by its first element) or nil.
MkItem(t, ft, a) == [t |-> t, ft |-> ft, a |-> a]
NilItem == MkItem("nil", "-", ZeroActor)
ObjectItem == MkItem("object", "-", ZeroActor)
ActorItem(a) == MkItem("actor", "-", a)
CollectionOf(it) == MkItem("collection", it.t, it.a)

MkCall(f, i, e) == [fn |-> f, iri |-> i, e |-> e]

\* what a call hands back: actor, key, error, the collaborator calls it made in
\* order, and whether it panicked instead of returning
Res(a, k, e, c) == [act |-> a, key |-> k, err |-> e, calls |-> c, panic |-> FALSE]

\* ------------------------------------------------------------------ collaborators
\* What the collaborators answer during one call: the store's Load, the
\* client's CtxGet, the client's CtxLoadIRI of a key's owner, the client's
\* CtxLoadIRI of the key IRI itself, and the store's LoadAccess.
ItemResp(e, it) == [err |-> e, it |-> it]
MkBody(d, a, k) == [doc |-> d, act |-> a, key |-> k]
JunkBody == MkBody("junk", ZeroActor, ZeroKey)
GetResp(e, n, r, s, b) == [err |-> e, nilResp |-> n, readErr |-> r, status |-> s, body |-> b]
MkUserData(r, i) == [rep |-> r, iri |-> i]
AccessResp(e, n, u) == [err |-> e, nilData |-> n, ud |-> u]

UnusedItem == ItemResp(<<"Unused">>, NilItem)
UnusedGet == GetResp(<<"Unused">>, FALSE, FALSE, 0, JunkBody)
UnusedAccess == AccessResp(<<"Unused">>, TRUE, MkUserData("nil", NoIRI))
Env0 == [load |-> UnusedItem, get |-> UnusedGet, owner |-> UnusedItem,
         iriload |-> UnusedItem, access |-> UnusedAccess]

\* vocab.ToActor
ToActor(it) ==
    IF it.t = "actor" THEN [act |-> Ptr(it.a), err |-> NoErr]
    ELSE [act |-> NilActor, err |-> <<"InvalidType">>]

\* vocab.OnActor: a nil item is skipped without an error
OnActor(it) ==
    IF it.t = "nil" THEN [called |-> FALSE, a |-> ZeroActor, err |-> NoErr]
    ELSE IF it.t = "actor" THEN [called |-> TRUE, a |-> it.a, err |-> NoErr]
    ELSE [called |-> FALSE, a |-> ZeroActor, err |-> <<"InvalidType">>]

\* ------------------------------------------------------------------ headers.go
iriIsIgnored_Equals(c, i) == \E n \in 1..Len(c.ignore) : i = c.ignore[n]

iriIsIgnored(c, i) == \E n \in 1..Len(c.ignore) : Contains(i, c.ignore[n])

loadFromStorage(c, i, e) ==
    IF c.st = "nil" THEN Res(Ptr(AnonymousActor), NilKey, Newf, <<>>)
    ELSE IF URLErr(i) THEN Res(Ptr(AnonymousActor), NilKey, Annotatef(<<"URL">>), <<>>)
    ELSE LET calls == <<MkCall("Load", StripFragment(i), "load")>>
             conv == ToActor(e.load.it)
         IN  IF e.load.err # NoErr THEN Res(Ptr(AnonymousActor), NilKey, e.load.err, calls)
             ELSE IF conv.err # NoErr THEN Res(conv.act, NilKey, conv.err, calls)
             ELSE Res(conv.act, Ptr(conv.act.v.key), NoErr, calls)

\* LoadRemoteKey parsing the body whatever the status
LoadRemoteKey_AnyStatus(i, e) ==
    LET g == e.get
        c1 == <<MkCall("CtxGet", i, "get")>>
        key == g.body.key
        c2 == c1 \o <<MkCall("CtxLoadIRI", key.owner, "owner")>>
        conv == ToActor(e.owner.it)
    IN  IF g.err # NoErr THEN Res(NilActor, NilKey, g.err, c1)
        ELSE IF g.nilResp THEN Res(NilActor, NilKey, <<"NotFound">>, c1)
        ELSE IF g.readErr THEN Res(NilActor, NilKey, <<"IO">>, c1)
        ELSE IF g.body.doc = "actor"
             THEN Res(Ptr(g.body.act), Ptr(g.body.act.key), NoErr, c1)
        ELSE IF g.body.doc # "key" THEN Res(NilActor, NilKey, <<"Parse">>, c1)
        ELSE IF e.owner.err # NoErr THEN Res(NilActor, Ptr(key), e.owner.err, c2)
        ELSE IF conv.err # NoErr THEN Res(NilActor, Ptr(key), conv.err, c2)
        ELSE Res(conv.act, Ptr(key), NoErr, c2)

\* LoadRemoteKey handing back the key resource in place of its owner
LoadRemoteKey_KeyAsActor(i, e) ==
    LET g == e.get
        c1 == <<MkCall("CtxGet", i, "get")>>
        key == g.body.key
        c2 == c1 \o <<MkCall("CtxLoadIRI", key.owner, "owner")>>
        conv == ToActor(e.owner.it)
    IN  IF g.err # NoErr THEN Res(NilActor, NilKey, g.err, c1)
        ELSE IF g.nilResp THEN Res(NilActor, NilKey, <<"NotFound">>, c1)
        ELSE IF g.readErr THEN Res(NilActor, NilKey, <<"IO">>, c1)
        ELSE IF g.status \notin {200, 410, 304}
             THEN Res(NilActor, NilKey, <<StatusKind(g.status)>>, c1)
        ELSE IF g.body.doc = "actor"
             THEN Res(Ptr(g.body.act), Ptr(g.body.act.key), NoErr, c1)
        ELSE IF g.body.doc # "key" THEN Res(NilActor, NilKey, <<"Parse">>, c1)
        ELSE IF e.owner.err # NoErr THEN Res(NilActor, Ptr(key), e.owner.err, c2)
        ELSE IF conv.err # NoErr THEN Res(NilActor, Ptr(key), conv.err, c2)
        ELSE Res(Ptr(MkActor(key.id, "Key", key)), Ptr(key), NoErr, c2)

LoadRemoteKey(i, e) ==
    LET g == e.get
        c1 == <<MkCall("CtxGet", i, "get")>>
        key == g.body.key
        c2 == c1 \o <<MkCall("CtxLoadIRI", key.owner, "owner")>>
        conv == ToActor(e.owner.it)
    IN  IF g.err # NoErr THEN Res(NilActor, NilKey, g.err, c1)
        ELSE IF g.nilResp THEN Res(NilActor, NilKey, <<"NotFound">>, c1)
        ELSE IF g.readErr THEN Res(NilActor, NilKey, <<"IO">>, c1)
        ELSE IF g.status \notin {200, 410, 304}
             THEN Res(NilActor, NilKey, <<StatusKind(g.status)>>, c1)
        ELSE IF g.body.doc = "actor"
             THEN Res(Ptr(g.body.act), Ptr(g.body.act.key), NoErr, c1)
        ELSE IF g.body.doc # "key" THEN Res(NilActor, NilKey, <<"Parse">>, c1)
        ELSE IF e.owner.err # NoErr THEN Res(NilActor, Ptr(key), e.owner.err, c2)
        ELSE IF conv.err # NoErr THEN Res(NilActor, Ptr(key), conv.err, c2)
        ELSE Res(conv.act, Ptr(key), NoErr, c2)

loadRemote_AlwaysLoadsIRI(c, i, e, loc, rem) ==
    LET c3 == loc.calls \o rem.calls \o <<MkCall("CtxLoadIRI", i, "iriload")>>
        on == OnActor(e.iriload.it)
    IN  IF ~c.c THEN Res(Ptr(AnonymousActor), NilKey, Newf, loc.calls)
        ELSE IF rem.err = NoErr /\ ~rem.key.nil
             THEN Res(rem.act, rem.key, NoErr, c3)
        ELSE IF e.iriload.err # NoErr
             THEN Res(Ptr(AnonymousActor), NilKey, e.iriload.err, c3)
        ELSE IF on.called THEN Res(Ptr(on.a), Ptr(on.a.key), on.err, c3)
        ELSE Res(rem.act, rem.key, on.err, c3)

\* the remote part of LoadActorFromKeyIRI, after the local lookup loc missed:
\* rem is the outcome of LoadRemoteKey
loadRemote(c, i, e, loc, rem) ==
    LET c3 == loc.calls \o rem.calls \o <<MkCall("CtxLoadIRI", i, "iriload")>>
        on == OnActor(e.iriload.it)
    IN  IF ~c.c THEN Res(Ptr(AnonymousActor), NilKey, Newf, loc.calls)
        ELSE IF rem.err = NoErr /\ ~rem.key.nil
             THEN Res(rem.act, rem.key, NoErr, loc.calls \o rem.calls)
        ELSE IF e.iriload.err # NoErr
             THEN Res(Ptr(AnonymousActor), NilKey, e.iriload.err, c3)
        ELSE IF on.called THEN Res(Ptr(on.a), Ptr(on.a.key), on.err, c3)
        ELSE Res(rem.act, rem.key, on.err, c3)

afterLocal_AlwaysRemote(c, i, e, loc) == loadRemote(c, i, e, loc, LoadRemoteKey(i, e))

\* LoadActorFromKeyIRI once the local lookup has answered loc
afterLocal(c, i, e, loc) ==
    IF loc.err = NoErr /\ ~loc.key.nil THEN loc
    ELSE loadRemote(c, i, e, loc, LoadRemoteKey(i, e))

\* LoadActorFromKeyIRI consulting the ignore list before anything else
LoadActorFromKeyIRI_IgnoreFirst(c, i, e) ==
    IF iriIsIgnored(c, i)
    THEN Res(Ptr(AnonymousActor), NilKey, <<"Forbidden">>, <<>>)
    ELSE IF c.st = "nil" /\ ~c.c THEN Res(Ptr(AnonymousActor), NilKey, NoErr, <<>>)
    ELSE afterLocal(c, i, e, loadFromStorage(c, i, e))

LoadActorFromKeyIRI(c, i, e) ==
    IF c.st = "nil" /\ ~c.c THEN Res(Ptr(AnonymousActor), NilKey, NoErr, <<>>)
    ELSE IF iriIsIgnored(c, i)
         THEN Res(Ptr(AnonymousActor), NilKey, <<"Forbidden">>, <<>>)
    ELSE afterLocal(c, i, e, loadFromStorage(c, i, e))

\* ------------------------------------------------------------------ middleware.go
\* crypto.PublicKey as decoded from a PEM
MkCrypto(t, m) == [typ |-> t, mat |-> m]
NoCrypto == MkCrypto("none", "none")

\* pem.Decode followed by x509.ParsePKIXPublicKey
ParsePKIX(pem) ==
    IF pem.enc = "none" THEN [pk |-> NoCrypto, err |-> Newf]
    ELSE IF pem.enc # "pkix" THEN [pk |-> NoCrypto, err |-> <<"X509">>]
    ELSE [pk |-> MkCrypto(pem.typ, pem.mat), err |-> NoErr]

compatibleVerifyAlgorithms_Swapped(pk) ==
    CASE pk.typ = "rsa" -> <<"rsa-sha512", "rsa-sha256">>
      [] pk.typ = "ecdsa" -> <<"ecdsa-sha256", "ecdsa-sha512">>
      [] pk.typ = "ed25519" -> <<"ed25519">>
      [] OTHER -> <<>>

compatibleVerifyAlgorithms_OneEach(pk) ==
    CASE pk.typ = "rsa" -> <<"rsa-sha512">>
      [] pk.typ = "ecdsa" -> <<"ecdsa-sha512">>
      [] pk.typ = "ed25519" -> <<"ed25519">>
      [] OTHER -> <<>>

compatibleVerifyAlgorithms(pk) ==
    CASE pk.typ = "rsa" -> <<"rsa-sha256", "rsa-sha512">>
      [] pk.typ = "ecdsa" -> <<"ecdsa-sha512", "ecdsa-sha256">>
      [] pk.typ = "ed25519" -> <<"ed25519">>
      [] OTHER -> <<>>

\* httpsig's Verifier.Verify(pk, algo) for the signature of the request, which
\* was made with key pair hv.mat under algorithm hv.alg
SigVerify(hv, pk, algo) == pk.mat = hv.mat /\ algo = hv.alg

\* the loop over the algorithms: TRUE when one of them verifies
VerifyAny(hv, pk, algos) == \E n \in 1..Len(algos) : SigVerify(hv, pk, algos[n])

KRes(pk, e, acc, c) == [pk |-> pk, err |-> e, acc |-> acc, calls |-> c]

\* GetKey once loadActorFromKeyFn has answered r
keyOf(acc, r) ==
    LET dec == ParsePKIX(r.key.v.pem)
    IN  IF r.err # NoErr /\ ~IsNotModified(r.err)
        THEN IF IsForbidden(r.err) THEN KRes(NoCrypto, r.err, acc, r.calls)
             ELSE KRes(NoCrypto, Wrap("NotFound", r.err), acc, r.calls)
        ELSE IF r.act.nil THEN KRes(NoCrypto, <<"NotFound">>, acc, r.calls)
        ELSE IF r.key.nil THEN KRes(NoCrypto, <<"NotFound">>, r.act, r.calls)
        ELSE KRes(dec.pk, dec.err, r.act, r.calls)

GetKey(c, id, acc, e) ==
    IF URLErr(id) THEN KRes(NoCrypto, <<"URL">>, acc, <<>>)
    ELSE keyOf(acc, LoadActorFromKeyIRI(c, id, e))

verifyWith_Unchecked(hv, g) ==
    IF g.err # NoErr THEN KRes(NoCrypto, Annotatef(g.err), g.acc, g.calls)
    ELSE KRes(g.pk, NoErr, g.acc, g.calls)

\* verifyHTTPSignature once GetKey has answered g
verifyWith(hv, g) ==
    IF g.err # NoErr THEN KRes(NoCrypto, Annotatef(g.err), g.acc, g.calls)
    ELSE IF VerifyAny(hv, g.pk, compatibleVerifyAlgorithms(g.pk))
         THEN KRes(g.pk, NoErr, g.acc, g.calls)
    ELSE KRes(g.pk, Newf, g.acc, g.calls)

verifyHTTPSignature(c, r, acc, e) ==
    IF ~r.hv.ok THEN KRes(NoCrypto, Annotatef(<<"Httpsig">>), acc, <<>>)
    ELSE verifyWith(r.hv, GetKey(c, r.hv.keyId, acc, e))

\* strings.SplitN(hdr, " ", 2): a header is the sequence of its
\* space-separated words
getAuthorization(hdr) ==
    IF Len(hdr) < 2 THEN [typ |-> hdr, auth |-> <<>>]
    ELSE [typ |-> <<hdr[1]>>, auth |-> Tail(hdr)]

unauthorized(err) == Wrap("Unauthorized", err)

\* assertToBytes taking any value for bytes
assertToBytes_AcceptsAll(ud) == [iri |-> ud.iri, err |-> NoErr]

assertToBytes(ud) ==
    IF ud.rep \in {"nil", "string", "bytes", "raw", "stringer"}
    THEN [iri |-> ud.iri, err |-> NoErr]
    ELSE [iri |-> NoIRI, err |-> <<"Err">>]

firstOrItem_AlwaysFirst(it) == MkItem(it.ft, "-", it.a)

firstOrItem(it) == IF it.t = "collection" THEN MkItem(it.ft, "-", it.a) ELSE it

\* osin.CheckBearerAuth: nil unless the header is "bearer <token>"
CheckBearerAuth(r) ==
    Len(r.Authorization) = 2 /\ r.Authorization[1] \in {"Bearer", "bearer"}

\* the bearer verifier without the check of LoadAccess's answer
oauthLoaderVerify_UncheckedAccess(r, acc, e) ==
    LET c1 == <<MkCall("LoadAccess", NoIRI, "access")>>
        a == e.access
        b == assertToBytes(a.ud)
        c2 == c1 \o <<MkCall("Load", b.iri, "load")>>
        on == OnActor(firstOrItem(e.load.it))
    IN  IF ~CheckBearerAuth(r) THEN KRes(NoCrypto, <<"BadRequest">>, acc, <<>>)
        ELSE IF a.err # NoErr \/ a.nilData \/ a.ud.rep = "nil" THEN KRes(NoCrypto, NoErr, acc, c1)
        ELSE IF b.err # NoErr THEN KRes(NoCrypto, <<"Unauthorized">>, acc, c1)
        ELSE IF e.load.err # NoErr THEN KRes(NoCrypto, unauthorized(e.load.err), acc, c2)
        ELSE IF e.load.it.t = "nil" THEN KRes(NoCrypto, unauthorized(NoErr), acc, c2)
        ELSE IF on.err # NoErr THEN KRes(NoCrypto, unauthorized(on.err), acc, c2)
        ELSE KRes(NoCrypto, NoErr, IF on.called THEN Ptr(on.a) ELSE acc, c2)

oauthLoaderVerify(r, acc, e) ==
    LET c1 == <<MkCall("LoadAccess", NoIRI, "access")>>
        a == e.access
        b == assertToBytes(a.ud)
        c2 == c1 \o <<MkCall("Load", b.iri, "load")>>
        on == OnActor(firstOrItem(e.load.it))
    IN  IF ~CheckBearerAuth(r) THEN KRes(NoCrypto, <<"BadRequest">>, acc, <<>>)
        ELSE IF a.err # NoErr THEN KRes(NoCrypto, a.err, acc, c1)
        ELSE IF a.nilData \/ a.ud.rep = "nil" THEN KRes(NoCrypto, <<"NotFound">>, acc, c1)
        ELSE IF b.err # NoErr THEN KRes(NoCrypto, <<"Unauthorized">>, acc, c1)
        ELSE IF e.load.err # NoErr THEN KRes(NoCrypto, unauthorized(e.load.err), acc, c2)
        ELSE IF e.load.it.t = "nil" THEN KRes(NoCrypto, unauthorized(NoErr), acc, c2)
        ELSE IF on.err # NoErr THEN KRes(NoCrypto, unauthorized(on.err), acc, c2)
        ELSE KRes(NoCrypto, NoErr, IF on.called THEN Ptr(on.a) ELSE acc, c2)

NewUnauthorized_Bare(err) == err

\* errors.NewUnauthorized(err, "Unauthorized").Challenge(challenge)
NewUnauthorized(err) == Wrap("Unauthorized", err)

\* headers.go: the Signature header first, the Authorization header otherwise
credentialType_AuthorizationFirst(r) ==
    IF r.Authorization # <<>> THEN getAuthorization(r.Authorization).typ
    ELSE IF r.Signature # <<>> THEN <<"Signature">> ELSE <<>>

credentialType(r) ==
    IF r.Signature # <<>> THEN <<"Signature">>
    ELSE IF r.Authorization # <<>> THEN getAuthorization(r.Authorization).typ
    ELSE <<>>

\* the switch on the credential type
verifyByType_RejectUnknown(c, r, typ, acct, e) ==
    IF typ = <<"Bearer">>
    THEN IF c.st = "oauthStore" THEN oauthLoaderVerify(r, acct, e)
         ELSE KRes(NoCrypto, NoErr, acct, <<>>)
    ELSE IF typ = <<"Signature">> THEN verifyHTTPSignature(c, r, acct, e)
    ELSE KRes(NoCrypto, <<"BadRequest">>, acct, <<>>)

verifyByType(c, r, typ, acct, e) ==
    IF typ = <<"Bearer">>
    THEN IF c.st = "oauthStore" THEN oauthLoaderVerify(r, acct, e)
         ELSE KRes(NoCrypto, NoErr, acct, <<>>)
    ELSE IF typ = <<"Signature">> THEN verifyHTTPSignature(c, r, acct, e)
    ELSE KRes(NoCrypto, NoErr, acct, <<>>)

outcome_KeepsLoaded(acct, v) ==
    IF v.err # NoErr THEN Res(v.acc, NilKey, NewUnauthorized(v.err), v.calls)
    ELSE Res(v.acc, NilKey, NoErr, v.calls)

\* the end of LoadActorFromRequest, v being the verifier's outcome
outcome(acct, v) ==
    IF v.err # NoErr THEN Res(acct, NilKey, NewUnauthorized(v.err), v.calls)
    ELSE Res(v.acc, NilKey, NoErr, v.calls)

\* LoadActorFromRequest for a request with headers and credential type typ
authenticate(c, r, typ, acct, e) ==
    IF typ = <<>> \/ typ = <<"">> THEN Res(acct, NilKey, NoErr, <<>>)
    ELSE outcome(acct, verifyByType(c, r, typ, acct, e))

LoadActorFromRequest_MissingIsError(c, r, e) ==
    IF r.isNil \/ r.hdrNil \/ credentialType(r) \in {<<>>, <<"">>}
    THEN Res(Ptr(AnonymousActor), NilKey, NewUnauthorized(<<"BadRequest">>), <<>>)
    ELSE authenticate(c, r, credentialType(r), Ptr(AnonymousActor), e)

LoadActorFromRequest(c, r, e) ==
    IF r.isNil \/ r.hdrNil THEN Res(Ptr(AnonymousActor), NilKey, NoErr, <<>>)
    ELSE authenticate(c, r, credentialType(r), Ptr(AnonymousActor), e)

\* ------------------------------------------------------------------ key loader
\* The HTTP-signature verifier with local-then-remote retry (keyLoader.Verify).
\* A call that panics hands nothing back.
Panicked(c) == [act |-> NilActor, key |-> NilKey, err |-> NoErr, calls |-> c, panic |-> TRUE]

\* pem.Decode, x509.ParsePKIXPublicKey, then x509.ParsePKCS1PublicKey: what
\* the PKIX parser returns is handed back whatever its type; the PKCS1 parser
\* only knows RSA keys
toCryptoPublicKey(pem) ==
    IF pem.enc = "none" THEN [pk |-> NoCrypto, err |-> Newf]
    ELSE IF pem.enc = "pkix" THEN [pk |-> MkCrypto(pem.typ, pem.mat), err |-> NoErr]
    ELSE IF pem.enc = "pkcs1" /\ pem.typ = "rsa"
         THEN [pk |-> MkCrypto("rsa", pem.mat), err |-> NoErr]
    ELSE [pk |-> NoCrypto, err |-> <<"X509">>]

\* errors.Join of the failures of n algorithms: nil when there is none
Join(n) == IF n = 0 THEN NoErr ELSE <<"Join">>

\* verifyFn once the key has been decoded to dec
verifyDecoded(hv, dec) ==
    IF dec.err # NoErr THEN Annotatef(dec.err)
    ELSE IF VerifyAny(hv, dec.pk, compatibleVerifyAlgorithms(dec.pk)) THEN NoErr
    ELSE Join(Len(compatibleVerifyAlgorithms(dec.pk)))

\* the closure verifyFn of Verify
verifyFn(hv, key) == verifyDecoded(hv, toCryptoPublicKey(key.pem))

loadLocalKey(c, i, e) ==
    IF c.st = "nil" THEN Res(Ptr(AnonymousActor), NilKey, Newf, <<>>)
    ELSE IF URLErr(i) THEN Res(Ptr(AnonymousActor), NilKey, Annotatef(<<"URL">>), <<>>)
    ELSE LET calls == <<MkCall("Load", StripFragment(i), "load")>>
             on == OnActor(e.load.it)
         IN  IF e.load.err # NoErr THEN Res(Ptr(AnonymousActor), NilKey, e.load.err, calls)
             ELSE IF on.called THEN Res(Ptr(on.a), Ptr(on.a.key), NoErr, calls)
             ELSE Res(Ptr(AnonymousActor), NilKey, NoErr, calls)

\* the package function LoadRemoteKey(ctx, c, iri): LoadRemoteKey above, with
\* an actor value in place of the pointer
LoadRemoteKeyFn(i, e) ==
    LET r == LoadRemoteKey(i, e)
    IN  IF r.act.nil THEN [r EXCEPT !.act = Ptr(AnonymousActor)] ELSE r

\* loadRemoteKey once LoadRemoteKey has answered rem; the log line reads
\* key.PublicKeyPem, whether or not a key was loaded
remoteKeyOf(i, e, rem) ==
    LET c3 == rem.calls \o <<MkCall("CtxLoadIRI", i, "iriload")>>
        on == OnActor(e.iriload.it)
    IN  IF rem.err = NoErr /\ ~rem.key.nil THEN rem
        ELSE IF e.iriload.err # NoErr
             THEN Res(Ptr(AnonymousActor), NilKey, e.iriload.err, c3)
        ELSE IF on.called THEN Res(Ptr(on.a), Ptr(on.a.key), on.err, c3)
        ELSE IF rem.key.nil THEN Panicked(c3)
        ELSE Res(rem.act, rem.key, on.err, c3)

loadRemoteKey(c, i, e) ==
    IF ~c.c THEN Res(Ptr(AnonymousActor), NilKey, Newf, <<>>)
    ELSE remoteKeyOf(i, e, LoadRemoteKeyFn(i, e))

\* keyLoader.LoadActorFromKeyIRI: the local key when there is one, the remote
\* one otherwise
keyLoaderLoadActorFromKeyIRI(c, i, e) ==
    IF c.st = "nil" /\ ~c.c THEN Res(Ptr(AnonymousActor), NilKey, NoErr, <<>>)
    ELSE IF iriIsIgnored(c, i)
         THEN Res(Ptr(AnonymousActor), NilKey, <<"Forbidden">>, <<>>)
    ELSE IF loadLocalKey(c, i, e).err = NoErr /\ ~loadLocalKey(c, i, e).key.nil
         THEN loadLocalKey(c, i, e)
    ELSE [loadRemoteKey(c, i, e) EXCEPT !.calls = loadLocalKey(c, i, e).calls \o @]

\* Verify from the remote retry on: loc is the local attempt, rem the outcome
\* of loadRemoteKey, err that of verifyFn on the remote key
verifyRemote(loc, rem, err) ==
    IF rem.panic THEN Panicked(loc.calls \o rem.calls)
    ELSE IF rem.err # NoErr
         THEN Res(Ptr(AnonymousActor), NilKey, Annotatef(rem.err), loc.calls \o rem.calls)
    ELSE IF err = NoErr THEN Res(rem.act, rem.key, NoErr, loc.calls \o rem.calls)
    ELSE Res(Ptr(AnonymousActor), rem.key, Annotatef(err), loc.calls \o rem.calls)

\* Verify once the local key has been looked up; in the result, key is the key
\* that verifyFn was last given
verifyRetry(c, hv, e, loc, rem) ==
    IF ~loc.key.nil /\ verifyFn(hv, loc.key.v) = NoErr
    THEN Res(loc.act, loc.key, NoErr, loc.calls)
    ELSE verifyRemote(loc, rem, verifyFn(hv, rem.key.v))

Verify(c, r, e) ==
    IF ~r.hv.ok THEN Res(Ptr(AnonymousActor), NilKey, Annotatef(<<"Httpsig">>), <<>>)
    ELSE verifyRetry(c, r.hv, e, loadLocalKey(c, r.hv.keyId, e),
                     loadRemoteKey(c, r.hv.keyId, e))

\* ------------------------------------------------------------------ inputs
\* every sequence over S of length at most n
RECURSIVE SeqsUpTo(_, _)
SeqsUpTo(S, n) ==
    IF n = 0 THEN {<<>>}
    ELSE LET T == SeqsUpTo(S, n - 1)
         IN  T \cup {Append(t, x) : t \in T, x \in S}

IgnoreEntries == {EvilHost}

\* resolver configurations: ClientResolver with SolverWithStorage,
\* SolverWithIgnoreList
Cfgs == [st : {"nil", "oauthStore"}, c : BOOLEAN, ignore : SeqsUpTo(IgnoreEntries, MaxIgnore)]

KeyIRIs == {JdoeMain, JdoeKey, MalloryMain}

JdoeWith(kid, pem) == MkActor(Jdoe, "Person", MkKey(kid, Jdoe, pem))
MalloryActor == MkActor(Mallory, "Person", MkKey(MalloryMain, Mallory, RSA2))

LocalActors == {JdoeWith(JdoeMain, RSA1), JdoeWith(JdoeMain, RSA2),
                JdoeWith(JdoeMain, DSA1), MkActor(Jdoe, "Person", ZeroKey)}
RemoteActors == {JdoeWith(JdoeMain, RSA1), JdoeWith(JdoeMain, RSA1PKCS1),
                 JdoeWith(JdoeMain, DSA1), MalloryActor}
OwnerActors == {JdoeWith(JdoeKey, RSA1), MalloryActor}
KeyDocs == {MkKey(JdoeKey, Jdoe, RSA1), MkKey(JdoeKey, Jdoe, NoPem)}

EnvErrs == {<<"NotFound">>, <<"NotModified">>, <<"Forbidden">>}

StoreResps ==
    {ItemResp(<<"NotFound">>, NilItem), ItemResp(NoErr, NilItem), ItemResp(NoErr, ObjectItem),
     ItemResp(NoErr, CollectionOf(NilItem)),
     ItemResp(NoErr, CollectionOf(ActorItem(JdoeWith(JdoeMain, RSA1))))}
    \cup {ItemResp(NoErr, ActorItem(a)) : a \in LocalActors}

Statuses == {200, 304, 410, 404}
Bodies == {JunkBody} \cup {MkBody("actor", a, ZeroKey) : a \in RemoteActors}
          \cup {MkBody("key", ZeroActor, k) : k \in KeyDocs}
GetResps ==
    {GetResp(<<"Net">>, FALSE, FALSE, 0, JunkBody), GetResp(NoErr, TRUE, FALSE, 0, JunkBody),
     GetResp(NoErr, FALSE, TRUE, 200, JunkBody)}
    \cup {GetResp(NoErr, FALSE, FALSE, s, b) : s \in Statuses, b \in Bodies}

OwnerResps ==
    {ItemResp(<<"NotFound">>, NilItem), ItemResp(NoErr, ObjectItem)}
    \cup {ItemResp(NoErr, ActorItem(a)) : a \in OwnerActors}
IriResps ==
    {ItemResp(err, NilItem) : err \in EnvErrs}
    \cup {ItemResp(NoErr, NilItem), ItemResp(NoErr, ObjectItem)}
    \cup {ItemResp(NoErr, ActorItem(a)) : a \in {JdoeWith(JdoeMain, RSA1), MalloryActor}}

UserDatas == {MkUserData("nil", NoIRI), MkUserData("string", Jdoe), MkUserData("bytes", Jdoe),
              MkUserData("raw", Jdoe), MkUserData("stringer", Jdoe), MkUserData("other", Jdoe)}
AccessResps ==
    {AccessResp(<<"NotFound">>, TRUE, MkUserData("nil", NoIRI)),
     AccessResp(<<"Err">>, TRUE, MkUserData("nil", NoIRI)),
     AccessResp(NoErr, TRUE, MkUserData("nil", NoIRI))}
    \cup {AccessResp(NoErr, FALSE, u) : u \in UserDatas}

\* the outcome of httpsig.NewVerifier for the request: the key id of the
\* signature and the key pair and algorithm that made it
MkHV(ok, k, m, a) == [ok |-> ok, keyId |-> k, mat |-> m, alg |-> a]
NoHV == MkHV(FALSE, NoIRI, "none", "none")
HVs == {NoHV, MkHV(TRUE, NoIRI, "k1", "rsa-sha256"),
        MkHV(TRUE, JdoeMain, "k2", "rsa-sha256"), MkHV(TRUE, JdoeMain, "k1", "rsa-sha512")}
       \cup {MkHV(TRUE, k, "k1", "rsa-sha256") : k \in KeyIRIs}

MkReq(n, h, s, a, hv) ==
    [isNil |-> n, hdrNil |-> h, Signature |-> s, Authorization |-> a, hv |-> hv]
NoReq == MkReq(TRUE, TRUE, <<>>, <<>>, NoHV)
SignatureHdrs == {<<>>, <<"sig">>}
AuthorizationHdrs == {<<>>, <<"Bearer", "tok">>, <<"Bearer">>, <<"Basic", "creds">>,
                      <<"Signature", "sig">>, <<"Signature">>, <<"", "x">>}
\* a request carries a parseable signature only in a header that holds one
Requests ==
    {NoReq, MkReq(FALSE, TRUE, <<>>, <<>>, NoHV)}
    \cup {r \in {MkReq(FALSE, FALSE, s, a, hv) :
                    s \in SignatureHdrs, a \in AuthorizationHdrs, hv \in HVs} :
            r.hv.ok => (r.Signature # <<>> \/ r.Authorization = <<"Signature", "sig">>)}

\* ------------------------------------------------------------------ one call
Uses(res, f) == \E n \in 1..Len(res.calls) : res.calls[n].e = f

\* the operation o applied to request r or key IRI i
Run(o, c, r, i, e) ==
    IF o = "LoadActorFromKeyIRI" THEN LoadActorFromKeyIRI(c, i, e)
    ELSE IF o = "keyLoader.LoadActorFromKeyIRI" THEN keyLoaderLoadActorFromKeyIRI(c, i, e)
    ELSE IF o = "Verify" THEN Verify(c, r, e)
    ELSE LoadActorFromRequest(c, r, e)

\* the answers a collaborator can give when the call consults it
Dom(o, c, r, i, e, f, S, unused) == IF Uses(Run(o, c, r, i, e), f) THEN S ELSE {unused}

\* the collaborators' answers to the calls that operation o makes, in the
\* order in which it makes them
EnvsFor(o, c, r, i) ==
    LET E1 == {[Env0 EXCEPT !.access = x] :
                    x \in Dom(o, c, r, i, Env0, "access", AccessResps, UnusedAccess)}
        E2 == UNION {{[e EXCEPT !.load = x] :
                    x \in Dom(o, c, r, i, e, "load", StoreResps, UnusedItem)} : e \in E1}
        E3 == UNION {{[e EXCEPT !.get = x] :
                    x \in Dom(o, c, r, i, e, "get", GetResps, UnusedGet)} : e \in E2}
        E4 == UNION {{[e EXCEPT !.owner = x] :
                    x \in Dom(o, c, r, i, e, "owner", OwnerResps, UnusedItem)} : e \in E3}
    IN  UNION {{[e EXCEPT !.iriload = x] :
                    x \in Dom(o, c, r, i, e, "iriload", IriResps, UnusedItem)} : e \in E4}

NoRet == Res(NilActor, NilKey, NoErr, <<>>)

\* the key loader that HTTPSignatureResolver returns, as the earlier revision
\* had it: the field act, shared by the Verify calls made through the one
\* pointer, and per call in flight its position, the signature, the key GetKey
\* returned, GetKey's error and the result
Procs == {1, 2}
IdleCall == [pc |-> "idle", hv |-> NoHV, pk |-> NoCrypto, err |-> NoErr, ret |-> NoRet]
NoKL == [act |-> NilActor, call |-> [p \in Procs |-> IdleCall]]

\* the contexts of a remote fetch in flight: the time since the fetch began,
\* whether the context of the inbound request is done, and the context handed
\* to CtxGet and CtxLoadIRI with its parent and its deadline
DefaultKeyWaitLoadTime == 2
WithTimeout(parent, now, d) == [parent |-> parent, deadline |-> now + d]
NoFetch == [now |-> 0, reqDone |-> FALSE, ctx |-> [parent |-> "none", deadline |-> 0]]

\* ------------------------------------------------------------------ oauth.go, package badger
\* The badger store: its mutex m, its database handle d, the access bucket,
\* the time, and what the last call returned. blocked: a call waits for the
\* mutex with no one left to unlock it; fatal: the mutex was unlocked while
\* not locked; closedTwice: d.Close() was called on a closed handle.
NoGrant == [set |-> FALSE, CreatedAt |-> 0, ExpiresIn |-> 0]

\* New
New == [m |-> FALSE, d |-> "nil", access |-> [t \in {"t1", "t2"} |-> NoGrant], now |-> 0,
        ret |-> [op |-> "none", grant |-> NoGrant, err |-> NoErr],
        blocked |-> FALSE, fatal |-> FALSE, closedTwice |-> FALSE]

\* Open: the mutex is locked and stays locked, whether or not badger.Open
\* succeeds
Open(st, ok) ==
    IF st.m THEN [st EXCEPT !.blocked = TRUE]
    ELSE [st EXCEPT !.m = TRUE, !.d = IF ok THEN "open" ELSE "nil",
                    !.ret = [op |-> "Open", grant |-> NoGrant,
                             err |-> IF ok THEN NoErr ELSE Annotatef(<<"IO">>)]]

\* Close: nothing without a handle; the handle is closed and the mutex
\* unlocked otherwise, the handle is kept
Close(st) ==
    IF st.d = "nil" THEN st
    ELSE [st EXCEPT !.d = "closed", !.m = FALSE,
                    !.closedTwice = @ \/ st.d = "closed",
                    !.fatal = @ \/ ~st.m]

\* a storage operation: Open, return on its error, the operation itself and
\* the deferred Close
withStore(st, ok, access, r) ==
    IF Open(st, ok).blocked THEN Open(st, ok)
    ELSE IF ~ok
         THEN [Open(st, ok) EXCEPT !.ret = [op |-> r.op, grant |-> NoGrant,
                                            err |-> Annotatef(Annotatef(<<"IO">>))]]
    ELSE Close([Open(st, ok) EXCEPT !.access = access, !.ret = r])

\* ------------------------------------------------------------------ fs/fs.go
\* The filesystem store: under each client id the client as its file reads
\* back, and what the last call returned. A client is a pointer to an
\* osin.DefaultClient; UserData is nil, a string or a byte slice.
NoClient == [nil |-> TRUE, Id |-> "", Secret |-> "", RedirectUri |-> "",
             UserData |-> [rep |-> "nil", val |-> ""]]

\* UserData after json.Marshal into the file and json.Unmarshal into the
\* interface{} field Extra: a byte slice is written base64-encoded and is
\* read back as that string
jsonExtra(ud) ==
    IF ud.rep = "bytes" THEN [rep |-> "string", val |-> IF ud.val = "x" THEN "eA==" ELSE "eQ=="]
    ELSE ud

\* UpdateClient: nothing for a nil pointer; putRaw opens an existing file for
\* reading only and fails to write to it, and creates a missing one
UpdateClient(st, c, ok) ==
    IF c.nil
    THEN [st EXCEPT !.ret = [op |-> "CreateClient", arg |-> c, id |-> "", client |-> NoClient,
                             err |-> NoErr, changed |-> FALSE]]
    ELSE IF ~ok \/ ~st.clients[c.Id].nil
    THEN [st EXCEPT !.ret = [op |-> "CreateClient", arg |-> c, id |-> c.Id, client |-> NoClient,
                             err |-> Newf, changed |-> FALSE]]
    ELSE [clients |-> [st.clients EXCEPT ![c.Id] = [c EXCEPT !.UserData = jsonExtra(@)]],
          ret |-> [op |-> "CreateClient", arg |-> c, id |-> c.Id, client |-> NoClient,
                   err |-> NoErr, changed |-> TRUE]]

\* GetClient: the client and the error
GetClient(st, id) ==
    IF id = "" THEN [client |-> NoClient, err |-> <<"NotFound">>]
    ELSE IF st.clients[id].nil
    THEN [client |-> [NoClient EXCEPT !.nil = FALSE], err |-> <<"NotFound", "Err">>]
    ELSE [client |-> st.clients[id], err |-> NoErr]

\* the entry of the failure log: the two credential headers of the request as
\* characters, and the header field logged
NoLog == [Signature |-> <<>>, Authorization |-> <<>>, header |-> <<>>]

\* ctx.Done() of the fetch is closed: its deadline has passed, or its parent
\* is done; context.Background() is never done
ctxDone(f) ==
    \/ f.now >= f.ctx.deadline
    \/ f.ctx.parent = "request" /\ f.reqDone

Init ==
    /\ cfg \in Cfgs
    /\ pc = "idle"
    /\ op = "none"
    /\ req = NoReq
    /\ iri = NoIRI
    /\ env = Env0
    /\ ret = NoRet
    /\ prev = NoRet
    /\ kl = NoKL
    /\ fetch = NoFetch
    /\ logCtx = NoLog
    /\ bdg = New
    /\ fst = [clients |-> [id \in {"", "c1", "c2"} |-> NoClient],
              ret |-> [op |-> "none", arg |-> NoClient, id |-> "", client |-> NoClient,
                       err |-> NoErr, changed |-> FALSE]]

Call(o, r, i) ==
    /\ pc = "idle"
    /\ \E e \in EnvsFor(o, cfg, r, i) :
        /\ env' = e
        /\ ret' = Run(o, cfg, r, i, e)
    /\ pc' = "done"
    /\ op' = o
    /\ req' = r
    /\ iri' = i
    /\ UNCHANGED <<cfg, prev, kl, fetch, logCtx, bdg, fst>>

DoLoadActorFromKeyIRI == \E i \in KeyIRIs : Call("LoadActorFromKeyIRI", NoReq, i)

DoLoadActorFromRequest == \E r \in Requests : Call("LoadActorFromRequest", r, NoIRI)

\* httpsig.NewVerifier reads the headers of the request: Verify is given a
\* request that has them
DoVerify == \E r \in {q \in Requests : ~q.isNil /\ ~q.hdrNil} : Call("Verify", r, NoIRI)

\* the caller takes the result; the call's state is gone
Return ==
    /\ pc \in {"done", "again"}
    /\ pc' = "idle"
    /\ op' = "none"
    /\ req' = NoReq
    /\ iri' = NoIRI
    /\ env' = Env0
    /\ ret' = NoRet
    /\ prev' = NoRet
    /\ fetch' = NoFetch
    /\ logCtx' = NoLog
    /\ UNCHANGED <<cfg, kl, bdg, fst>>

\* what the collaborators answer after a key resolution: the resolver saves
\* nothing to the store
EnvAfter_Saved(e, res) ==
    IF res.err = NoErr /\ ~res.act.nil /\ Len(res.calls) > 1
    THEN [e EXCEPT !.load = ItemResp(NoErr, ActorItem(res.act.v))]
    ELSE e

EnvAfter(e, res) == e

\* the same key IRI is resolved a second time, the store and the remote
\* documents being what they were
Repeat ==
    /\ pc = "done" /\ op = "LoadActorFromKeyIRI"
    /\ pc' = "again"
    /\ prev' = ret
    /\ env' = EnvAfter(env, ret)
    /\ ret' = LoadActorFromKeyIRI(cfg, iri, EnvAfter(env, ret))
    /\ UNCHANGED <<cfg, op, req, iri, kl, fetch, logCtx, bdg, fst>>

Next == DoLoadActorFromKeyIRI \/ DoLoadActorFromRequest \/ Return

Spec == Init /\ [][Next]_vars

\* the verifier with local-then-remote retry on its own
NextKL == DoVerify \/ Return

SpecKL == Init /\ [][NextKL]_vars

\* both authenticators: the resolver's LoadActorFromRequest and the key
\* loader's Verify
NextAuth == DoLoadActorFromRequest \/ DoVerify \/ Return

SpecAuth == Init /\ [][NextAuth]_vars

\* the signature of the request that caller p verifies: each caller's request
\* is signed by another actor
SignedBy(p) ==
    IF p = 1 THEN MkHV(TRUE, JdoeMain, "k1", "rsa-sha256")
    ELSE MkHV(TRUE, MalloryMain, "k2", "rsa-sha256")

\* what the collaborators answer for the key id of signature hv: the signer's
\* actor document, or nothing
Answers(hv) ==
    {[Env0 EXCEPT !.load = ItemResp(<<"NotFound">>, NilItem),
                  !.get = GetResp(NoErr, FALSE, FALSE, 200, MkBody("actor", a, ZeroKey))] :
        a \in {b \in {JdoeWith(JdoeMain, RSA1), MalloryActor} : b.key.id = hv.keyId}}
    \cup {[Env0 EXCEPT !.load = ItemResp(<<"NotFound">>, NilItem),
                       !.get = GetResp(<<"Net">>, FALSE, FALSE, 0, JunkBody),
                       !.iriload = ItemResp(<<"NotFound">>, NilItem)]}

\* Verify up to the return of GetKey, which stores the actor it loaded in k.act
VerifyGetKey(p) ==
    /\ kl.call[p].pc = "idle"
    /\ \E e \in Answers(SignedBy(p)) :
          LET g == GetKey(cfg, SignedBy(p).keyId, kl.act, e)
          IN  kl' = [act |-> g.acc,
                     call |-> [kl.call EXCEPT ![p] =
                        [pc |-> "key", hv |-> SignedBy(p), pk |-> g.pk, err |-> g.err,
                         ret |-> NoRet]]]
    /\ UNCHANGED <<cfg, pc, op, req, iri, env, ret, prev, fetch, logCtx, bdg, fst>>

\* the result of Verify after GetKey: on success the actor that k.act points
\* to now
verifyEnd(c, act) ==
    IF c.err # NoErr THEN Res(Ptr(AnonymousActor), NilKey, Annotatef(c.err), <<>>)
    ELSE IF VerifyAny(c.hv, c.pk, compatibleVerifyAlgorithms(c.pk))
         THEN Res(act, NilKey, NoErr, <<>>)
    ELSE Res(Ptr(AnonymousActor), NilKey,
             Annotatef(Join(Len(compatibleVerifyAlgorithms(c.pk)))), <<>>)

\* Verify from the algorithm loop to its return
VerifyReturn(p) ==
    /\ kl.call[p].pc = "key"
    /\ kl' = [kl EXCEPT !.call[p].pc = "done",
                        !.call[p].ret = verifyEnd(kl.call[p], kl.act)]
    /\ UNCHANGED <<cfg, pc, op, req, iri, env, ret, prev, fetch, logCtx, bdg, fst>>

\* the caller takes the result; k.act stays
VerifyDone(p) ==
    /\ kl.call[p].pc = "done"
    /\ kl' = [kl EXCEPT !.call[p] = IdleCall]
    /\ UNCHANGED <<cfg, pc, op, req, iri, env, ret, prev, fetch, logCtx, bdg, fst>>

\* two callers verifying through the same key loader
NextShared == \E p \in Procs : VerifyGetKey(p) \/ VerifyReturn(p) \/ VerifyDone(p)

SpecShared == Init /\ [][NextShared]_vars

\* LoadActorFromRequest up to its first remote call: the fetch is in flight
\* under a context made from context.Background()
StartFetch ==
    /\ pc = "idle"
    /\ \E r \in Requests :
         \E e \in EnvsFor("LoadActorFromRequest", cfg, r, NoIRI) :
            /\ Uses(Run("LoadActorFromRequest", cfg, r, NoIRI, e), "get")
            /\ req' = r
            /\ env' = e
    /\ pc' = "fetching"
    /\ op' = "LoadActorFromRequest"
    /\ fetch' = [now |-> 0, reqDone |-> FALSE,
                 ctx |-> WithTimeout("background", 0, DefaultKeyWaitLoadTime)]
    /\ UNCHANGED <<cfg, iri, ret, prev, kl, logCtx, bdg, fst>>

\* the server cancels the context of the inbound request
CancelRequest ==
    /\ pc = "fetching" /\ ~fetch.reqDone
    /\ fetch' = [fetch EXCEPT !.reqDone = TRUE]
    /\ UNCHANGED <<cfg, pc, op, req, iri, env, ret, prev, kl, logCtx, bdg, fst>>

\* time passes while the fetch is pending
Tick ==
    /\ pc = "fetching" /\ ~ctxDone(fetch)
    /\ fetch' = [fetch EXCEPT !.now = @ + 1]
    /\ UNCHANGED <<cfg, pc, op, req, iri, env, ret, prev, kl, logCtx, bdg, fst>>

\* the remote side answers before the context of the fetch is done
Respond ==
    /\ pc = "fetching" /\ ~ctxDone(fetch)
    /\ ret' = Run(op, cfg, req, iri, env)
    /\ pc' = "done"
    /\ UNCHANGED <<cfg, op, req, iri, env, prev, kl, fetch, logCtx, bdg, fst>>

\* the context of the fetch is done: CtxGet and CtxLoadIRI fail with its error
Abort ==
    /\ pc = "fetching" /\ ctxDone(fetch)
    /\ env' = [env EXCEPT !.get = GetResp(<<"ContextDone">>, FALSE, FALSE, 0, JunkBody),
                          !.owner = UnusedItem,
                          !.iriload = ItemResp(<<"ContextDone">>, NilItem)]
    /\ ret' = Run(op, cfg, req, iri, env')
    /\ pc' = "done"
    /\ UNCHANGED <<cfg, op, req, iri, prev, kl, fetch, logCtx, bdg, fst>>

NextFetch == StartFetch \/ CancelRequest \/ Tick \/ Respond \/ Abort \/ Return

SpecFetch == Init /\ [][NextFetch]_vars

\* ------------------------------------------------------------------ the failure log
\* Header values as sequences of characters.
\* strings.Index: the first position at which sub occurs in str, 0 for none
Index(str, sub) ==
    LET hits == {n \in 1..(Len(str) - Len(sub) + 1) : SubSeq(str, n, n + Len(sub) - 1) = sub}
    IN  IF hits = {} THEN 0 ELSE CHOOSE n \in hits : \A m \in hits : n <= m

\* strings.Replace(str, old, new, 1)
Replace(str, old, new) ==
    IF Index(str, old) = 0 THEN str
    ELSE SubSeq(str, 1, Index(str, old) - 1) \o new
         \o SubSeq(str, Index(str, old) + Len(old), Len(str))

\* mask.S(auth).String(): the module is not among the sources; the mask is
\* the fixed-width one the specification describes
maskS(auth) == <<"#", "#", "#", "#">>

\* getAuthorization on the characters of the header: strings.SplitN(hdr, " ", 2)
SplitN(hdr) ==
    IF Index(hdr, <<" ">>) = 0 THEN [typ |-> hdr, auth |-> <<>>]
    ELSE [typ |-> SubSeq(hdr, 1, Index(hdr, <<" ">>) - 1),
          auth |-> SubSeq(hdr, Index(hdr, <<" ">>) + 1, Len(hdr))]

\* logCtx["header"] of the failure log
logHeader(sig, authz) ==
    IF sig # <<>> THEN Replace(sig, sig, maskS(sig))
    ELSE Replace(authz, SplitN(authz).auth, maskS(SplitN(authz).auth))

Bearer == <<"B", "e", "a", "r", "e", "r">>

\* LoadActorFromRequest for a request whose credential fails verification:
\* the entry it logs. A bearer token is verified only with an OAuth2 store.
LogFailure ==
    /\ pc = "idle"
    /\ \E sig \in UNION {[1..n -> {"e", "a", "r", "x"}] : n \in 0..MaxCred},
          tok \in UNION {[1..n -> {"e", "a", "r", "x"}] : n \in 0..MaxCred} :
       \E authz \in {IF tok = <<>> THEN <<>> ELSE Bearer \o <<" ">> \o tok} :
          /\ sig # <<>> \/ (authz # <<>> /\ cfg.st = "oauthStore")
          /\ sig # <<>> => Len(authz) <= Len(Bearer) + 2
          /\ logCtx' = [Signature |-> sig, Authorization |-> authz,
                        header |-> logHeader(sig, authz)]
    /\ pc' = "done"
    /\ op' = "LoadActorFromRequest"
    /\ UNCHANGED <<cfg, req, iri, env, ret, prev, kl, fetch, bdg, fst>>

NextLog == LogFailure \/ Return

SpecLog == Init /\ [][NextLog]_vars

\* key resolution by the resolver and by the key loader
DoKeyLoaderLoadActorFromKeyIRI ==
    \E i \in KeyIRIs : Call("keyLoader.LoadActorFromKeyIRI", NoReq, i)

NextKeyIRI == DoLoadActorFromKeyIRI \/ DoKeyLoaderLoadActorFromKeyIRI \/ Return

SpecKeyIRI == Init /\ [][NextKeyIRI]_vars

\* the calls made on the badger store, one after the other, at times that do
\* not go back; badger.Open may fail at each
StoreCall(st) ==
    /\ ~bdg.blocked /\ ~bdg.fatal
    /\ \E t \in {bdg.now, bdg.now + 1} : t <= MaxNow /\ bdg' = [st EXCEPT !.now = t]
    /\ UNCHANGED <<cfg, pc, op, req, iri, env, ret, prev, kl, fetch, logCtx, fst>>

DoOpen == \E ok \in BOOLEAN : StoreCall(Open(bdg, ok))

DoClose == StoreCall([Close(bdg) EXCEPT !.ret = [op |-> "Close", grant |-> NoGrant, err |-> NoErr]])

\* Clone calls Close and hands back the same store
DoClone == StoreCall([Close(bdg) EXCEPT !.ret = [op |-> "Clone", grant |-> NoGrant, err |-> NoErr]])

\* SaveAccess of a grant with a client, without refresh token, authorize data
\* or previous access
SaveAccess ==
    \E ok \in BOOLEAN, t \in {"t1", "t2"}, e \in {1} :
        StoreCall(withStore(bdg, ok,
            [bdg.access EXCEPT ![t] = [set |-> TRUE, CreatedAt |-> bdg.now, ExpiresIn |-> e]],
            [op |-> "SaveAccess", grant |-> NoGrant, err |-> NoErr]))

\* LoadAccess: the stored grant as it was saved, NotFound without one; the
\* time is not consulted
LoadAccess ==
    \E ok \in BOOLEAN, t \in {"", "t1", "t2"} :
        IF t = "" THEN StoreCall([bdg EXCEPT !.ret = [op |-> "LoadAccess", grant |-> NoGrant, err |-> <<"NotFound">>]])
        ELSE StoreCall(withStore(bdg, ok, bdg.access,
                [op |-> "LoadAccess", grant |-> bdg.access[t],
                 err |-> IF bdg.access[t].set THEN NoErr ELSE <<"NotFound", "KeyNotFound">>]))

RemoveAccess ==
    \E ok \in BOOLEAN, t \in {"t1", "t2"} :
        StoreCall(withStore(bdg, ok, [bdg.access EXCEPT ![t] = NoGrant],
                            [op |-> "RemoveAccess", grant |-> NoGrant, err |-> NoErr]))

NextBadger == DoOpen \/ DoClose \/ DoClone \/ SaveAccess \/ LoadAccess \/ RemoveAccess

SpecBadger == Init /\ [][NextBadger]_vars

\* CreateClient is UpdateClient; creating the folder or the file may fail
CreateClient ==
    /\ \E ok \in BOOLEAN :
       \E c \in {NoClient} \cup
                [nil : {FALSE}, Id : {"", "c1", "c2"}, Secret : {"s1"}, RedirectUri : {"u1"},
                 UserData : {[rep |-> "nil", val |-> ""]}
                            \cup [rep : {"string", "bytes"}, val : {"x"}]] :
          fst' = UpdateClient(fst, c, ok)
    /\ UNCHANGED <<cfg, pc, op, req, iri, env, ret, prev, kl, fetch, logCtx, bdg>>

DoGetClient ==
    /\ \E id \in {"", "c1", "c2"} :
          fst' = [fst EXCEPT !.ret = [op |-> "GetClient", arg |-> NoClient, id |-> id,
                                      client |-> GetClient(fst, id).client,
                                      err |-> GetClient(fst, id).err, changed |-> FALSE]]
    /\ UNCHANGED <<cfg, pc, op, req, iri, env, ret, prev, kl, fetch, logCtx, bdg>>

NextFS == CreateClient \/ DoGetClient

SpecFS == Init /\ [][NextFS]_vars

\* key resolution, once and again
NextTwice == DoLoadActorFromKeyIRI \/ Repeat \/ Return

SpecTwice == Init /\ [][NextTwice]_vars

\* ------------------------------------------------------------------ claims
Done(o) == pc = "done" /\ op = o
Anonymous(r) == r.act = Ptr(AnonymousActor) /\ r.err = NoErr
Called(f) == \E n \in 1..Len(ret.calls) : ret.calls[n].fn = f
HasHeaders == ~req.isNil /\ ~req.hdrNil

\* C1: a request that is nil, has nil headers, or carries neither a Signature
\* nor an Authorization header yields (AnonymousActor, nil) under every
\* resolver configuration.
C1_NoCredentialsIsAnonymous ==
    (Done("LoadActorFromRequest")
        /\ (req.isNil \/ req.hdrNil \/ (req.Signature = <<>> /\ req.Authorization = <<>>)))
    => Anonymous(ret) /\ ret.calls = <<>>

C1_Witness ==
    /\ Done("LoadActorFromRequest") /\ HasHeaders
    /\ req.Signature = <<>> /\ req.Authorization = <<>>
    /\ cfg.st = "oauthStore" /\ cfg.c /\ cfg.ignore # <<>>
    /\ Anonymous(ret)

\* C2 as stated: with no Signature header, any Authorization scheme other than
\* Bearer yields (AnonymousActor, nil).
C2_Original ==
    (Done("LoadActorFromRequest") /\ HasHeaders /\ req.Signature = <<>>
        /\ req.Authorization # <<>> /\ req.Authorization[1] # "Bearer")
    => Anonymous(ret)

\* C2 amended: with no Signature header, any Authorization scheme other than
\* Bearer and Signature yields (AnonymousActor, nil); the scheme Signature is
\* dispatched to HTTP-signature verification.
C2_UnknownSchemeIsAnonymous ==
    (Done("LoadActorFromRequest") /\ HasHeaders /\ req.Signature = <<>>
        /\ req.Authorization # <<>> /\ req.Authorization[1] \notin {"Bearer", "Signature"})
    => Anonymous(ret) /\ ret.calls = <<>>

C2_Witness ==
    /\ Done("LoadActorFromRequest") /\ HasHeaders /\ req.Signature = <<>>
    /\ req.Authorization = <<"Basic", "creds">>
    /\ cfg.st = "oauthStore" /\ cfg.c
    /\ Anonymous(ret)

GetOk ==
    /\ env.get.err = NoErr /\ ~env.get.nilResp /\ ~env.get.readErr
    /\ env.get.status \in {200, 410, 304}
CalledWith(f, i) == \E n \in 1..Len(ret.calls) : ret.calls[n].fn = f /\ ret.calls[n].iri = i
\* key k, as its PEM decodes, verifies a signature made with key pair hv.mat
\* under algorithm hv.alg
KeyVerifies(k, hv) ==
    /\ k.pem.enc = "pkix" /\ k.pem.mat = hv.mat
    /\ \/ k.pem.typ = "rsa" /\ hv.alg \in {"rsa-sha256", "rsa-sha512"}
       \/ k.pem.typ = "ecdsa" /\ hv.alg \in {"ecdsa-sha256", "ecdsa-sha512"}
       \/ k.pem.typ = "ed25519" /\ hv.alg = "ed25519"
\* the actors the remote side serves for the key IRI: the document behind the
\* key IRI when it is an actor, the actor loaded from the IRI otherwise
RemoteActorsServed ==
    IF ~Called("CtxGet") THEN {}
    ELSE IF GetOk /\ env.get.body.doc = "actor" THEN {env.get.body.act}
    ELSE IF GetOk /\ env.get.body.doc = "key" /\ env.owner.err = NoErr
            /\ env.owner.it.t = "actor" THEN {}
    ELSE IF env.iriload.err = NoErr /\ env.iriload.it.t = "actor" THEN {env.iriload.it.a}
    ELSE {}

C5_KeyDocumentYieldsOwner ==
    (pc = "done" /\ Called("CtxGet") /\ GetOk /\ env.get.body.doc = "key"
        /\ env.owner.err = NoErr /\ env.owner.it.t = "actor")
    => LET K == env.get.body.key
           A == env.owner.it.a
           r == IF op = "LoadActorFromKeyIRI" THEN ret
                ELSE LoadActorFromKeyIRI(cfg, req.hv.keyId, env)
       IN  /\ r.err = NoErr
           /\ r.act = Ptr(A)
           /\ r.key = Ptr(K)
           /\ A.id = K.owner => r.act.v.id = K.owner
           /\ CalledWith("CtxLoadIRI", K.owner)
           /\ r.act.v # MkActor(K.id, "Key", K)
           /\ op = "LoadActorFromRequest" /\ ret.err = NoErr => ret.act = Ptr(A)

C5_Witness ==
    /\ Done("LoadActorFromKeyIRI") /\ iri = JdoeKey
    /\ GetOk /\ env.get.body = MkBody("key", ZeroActor, MkKey(JdoeKey, Jdoe, RSA1))
    /\ env.owner = ItemResp(NoErr, ActorItem(JdoeWith(JdoeKey, RSA1)))
    /\ ret.err = NoErr /\ ret.act.v.id = Jdoe /\ ret.key.v.id = JdoeKey

C7_BearerLoadsActor ==
    (Done("LoadActorFromRequest") /\ HasHeaders /\ req.Signature = <<>>
        /\ Len(req.Authorization) = 2 /\ req.Authorization[1] = "Bearer"
        /\ Called("LoadAccess") /\ env.access.err = NoErr /\ ~env.access.nilData
        /\ env.access.ud.rep \in {"string", "bytes", "raw", "stringer"}
        /\ env.load.err = NoErr /\ env.load.it.t = "actor")
    => /\ ret.err = NoErr
       /\ ret.act = Ptr(env.load.it.a)
       /\ ret.calls = <<MkCall("LoadAccess", NoIRI, "access"),
                        MkCall("Load", env.access.ud.iri, "load")>>

C7_Witness ==
    /\ Done("LoadActorFromRequest") /\ req.Signature = <<>>
    /\ req.Authorization = <<"Bearer", "tok">>
    /\ env.access = AccessResp(NoErr, FALSE, MkUserData("raw", Jdoe))
    /\ env.load.it = ActorItem(JdoeWith(JdoeMain, RSA2))
    /\ ret.err = NoErr /\ ret.act.v.id = Jdoe /\ CalledWith("Load", Jdoe)

\* the key IRI is contained by an entry of the ignore list: same host, and the
\* entry's path is part of the IRI's path
IriIgnored ==
    \E n \in DOMAIN cfg.ignore :
        /\ iri.host = cfg.ignore[n].host
        /\ \E k \in 0..Len(iri.path) :
              SubSeq(iri.path, k + 1, k + Len(cfg.ignore[n].path)) = cfg.ignore[n].path

\* C8 as stated: under every configuration, LoadActorFromKeyIRI of an ignored
\* IRI fails with Forbidden without any access to the client or the store.
C8_Original ==
    (Done("LoadActorFromKeyIRI") /\ IriIgnored)
    => Kind(ret.err) = "Forbidden" /\ ret.calls = <<>>

\* C8 amended: under every configuration that has a store or a client,
\* LoadActorFromKeyIRI of an ignored IRI fails with Forbidden; with neither it
\* returns (AnonymousActor, nil, nil); in both cases without any access to the
\* client or the store.
C8_IgnoredIsForbidden ==
    (Done("LoadActorFromKeyIRI") /\ IriIgnored)
    => /\ ret.calls = <<>>
       /\ ret.act = Ptr(AnonymousActor) /\ ret.key = NilKey
       /\ IF cfg.st # "nil" \/ cfg.c THEN ret.err = <<"Forbidden">> ELSE ret.err = NoErr

C8_Witness ==
    /\ Done("LoadActorFromKeyIRI") /\ iri = MalloryMain /\ cfg.ignore = <<EvilHost>>
    /\ cfg.st = "oauthStore" /\ cfg.c
    /\ ret.err = <<"Forbidden">> /\ ret.calls = <<>>

\* C9: every error LoadActorFromRequest returns is of kind Unauthorized or
\* Forbidden, whatever the kind of the error of the stage that failed.
C9_OnlyUnauthorizedOrForbidden ==
    (Done("LoadActorFromRequest") /\ ret.err # NoErr)
    => Kind(ret.err) \in {"Unauthorized", "Forbidden"}

C9_Witness ==
    /\ Done("LoadActorFromRequest")
    /\ Len(ret.err) > 1 /\ Kind(ret.err) = "Unauthorized"
    /\ ret.err[2] \in {"BadRequest", "NotFound"}

\* C10 as stated: when the key resolved for the keyId decodes to a key type
\* other than RSA, ECDSA or Ed25519, Verify returns AnonymousActor with a
\* non-nil error.
C10_UnsupportedKeyTypeFails ==
    (Done("Verify") /\ ~ret.panic /\ ~ret.key.nil
        /\ toCryptoPublicKey(ret.key.v.pem).err = NoErr
        /\ toCryptoPublicKey(ret.key.v.pem).pk.typ \notin {"rsa", "ecdsa", "ed25519"})
    => ret.err # NoErr /\ ret.act = Ptr(AnonymousActor)

\* the key types x509 can hand back, and the algorithm list documented for each
KeyTypes == {"rsa", "ecdsa", "ed25519", "dsa", "x25519"}
DocumentedAlgorithms(t) ==
    IF t = "rsa" THEN <<"rsa-sha256", "rsa-sha512">>
    ELSE IF t = "ecdsa" THEN <<"ecdsa-sha512", "ecdsa-sha256">>
    ELSE IF t = "ed25519" THEN <<"ed25519">>
    ELSE <<>>

\* C11: compatibleVerifyAlgorithms is a function of the key type alone: RSA
\* gives [RSA-SHA256, RSA-SHA512], ECDSA [ECDSA-SHA512, ECDSA-SHA256], Ed25519
\* [ED25519], in that order, every other type the empty list; so does the list
\* tried for the key a Verify call resolved.
C11_AlgorithmsByKeyType ==
    /\ \A t \in KeyTypes, m \in {"k1", "k2"} :
          compatibleVerifyAlgorithms(MkCrypto(t, m)) = DocumentedAlgorithms(t)
    /\ (Done("Verify") /\ ~ret.panic /\ ~ret.key.nil
            /\ toCryptoPublicKey(ret.key.v.pem).err = NoErr)
       => LET pk == toCryptoPublicKey(ret.key.v.pem).pk
          IN  /\ compatibleVerifyAlgorithms(pk) = DocumentedAlgorithms(pk.typ)
              /\ compatibleVerifyAlgorithms(pk)
                    = compatibleVerifyAlgorithms(MkCrypto(pk.typ, "k2"))

C11_Witness ==
    /\ Done("Verify") /\ ~ret.key.nil /\ ret.key.v.pem = RSA1
    /\ req.hv.alg = "rsa-sha512" /\ req.hv.mat = "k1"
    /\ ret.err = NoErr

KeyVerifiesEither(k, hv) ==
    /\ k.pem.enc = "pkix" \/ (k.pem.enc = "pkcs1" /\ k.pem.typ = "rsa")
    /\ k.pem.mat = hv.mat
    /\ \/ k.pem.typ = "rsa" /\ hv.alg \in {"rsa-sha256", "rsa-sha512"}
       \/ k.pem.typ = "ecdsa" /\ hv.alg \in {"ecdsa-sha256", "ecdsa-sha512"}
       \/ k.pem.typ = "ed25519" /\ hv.alg = "ed25519"
\* the store holds an actor for the key id whose key verifies the request
LocalKeyVerifies ==
    /\ cfg.st # "nil" /\ env.load.err = NoErr /\ env.load.it.t = "actor"
    /\ KeyVerifiesEither(env.load.it.a.key, req.hv)
\* the remote answers to a GET of the key id with an actor whose key verifies
\* the request
FreshAnswers ==
    {g \in GetResps : /\ g.err = NoErr /\ ~g.nilResp /\ ~g.readErr /\ g.status = 200
                      /\ g.body.doc = "actor"
                      /\ KeyVerifiesEither(g.body.act.key, req.hv)}
NumCalls(calls, f) == Cardinality({n \in DOMAIN calls : calls[n].fn = f})

\* C13 as stated: when the local key does not verify the request, or there is
\* none, and the key of a fresh remote fetch does, Verify returns the remotely
\* fetched actor with a nil error, after exactly one remote fetch that follows
\* the local attempt.
C13_RetryWithRemoteKey ==
    (Done("Verify") /\ req.hv.ok /\ cfg.c /\ ~LocalKeyVerifies)
    => \A g \in FreshAnswers :
          LET r == Verify(cfg, req, [env EXCEPT !.get = g])
          IN  /\ ~r.panic /\ r.err = NoErr
              /\ r.act = Ptr(g.body.act)
              /\ NumCalls(r.calls, "CtxGet") = 1
              /\ \A n \in DOMAIN r.calls :
                    r.calls[n].fn = "Load" => n = 1

\* C14: when Verify or LoadActorFromRequest returns an error, the actor
\* returned with it is AnonymousActor, whatever actor was loaded on the way.
C14_ErrorComesWithAnonymous ==
    (pc = "done" /\ op \in {"Verify", "LoadActorFromRequest"} /\ ~ret.panic
        /\ ret.err # NoErr)
    => ret.act = Ptr(AnonymousActor)

C14_Witness ==
    /\ Done("LoadActorFromRequest") /\ req.Signature # <<>>
    /\ req.hv = MkHV(TRUE, JdoeMain, "k2", "rsa-sha256")
    /\ Called("CtxGet") /\ GetOk /\ env.get.body.act = JdoeWith(JdoeMain, RSA1)
    /\ env.get.body.doc = "actor"
    /\ ret.err = <<"Unauthorized", "Err">> /\ ret.act = Ptr(AnonymousActor)

\* C15 as stated: for every request with headers and every answer of the
\* collaborators, authentication returns normally: no call panics.
C15_NoPanic ==
    (pc = "done" /\ op \in {"Verify", "LoadActorFromRequest"} /\ HasHeaders)
    => ~ret.panic

\* the grant of the bearer token names an IRI that the store resolved to actor a
BearerGround(a) ==
    /\ req.Signature = <<>> /\ req.Authorization = <<"Bearer", "tok">>
    /\ Called("LoadAccess") /\ env.access.err = NoErr
    /\ ~env.access.nilData /\ env.access.ud.rep # "nil"
    /\ CalledWith("Load", env.access.ud.iri) /\ env.load.err = NoErr
    /\ env.load.it \in {ActorItem(a), CollectionOf(ActorItem(a))}
\* the actor and key that the last collaborator consulted gave for the key id
ResolvedPairs ==
    IF ret.calls = <<>> THEN {}
    ELSE LET last == ret.calls[Len(ret.calls)].e
         IN  IF last = "load" /\ env.load.err = NoErr /\ env.load.it.t = "actor"
             THEN {<<env.load.it.a, env.load.it.a.key>>}
             ELSE IF last = "get" /\ GetOk /\ env.get.body.doc = "actor"
             THEN {<<env.get.body.act, env.get.body.act.key>>}
             ELSE IF last = "owner" /\ GetOk /\ env.get.body.doc = "key"
                     /\ env.owner.err = NoErr /\ env.owner.it.t = "actor"
             THEN {<<env.owner.it.a, env.get.body.key>>}
             ELSE IF last = "iriload" /\ env.iriload.err = NoErr /\ env.iriload.it.t = "actor"
             THEN {<<env.iriload.it.a, env.iriload.it.a.key>>}
             ELSE {}
\* a key was resolved for the key id of the signature, it verifies the
\* signature, and a is the actor resolved with it
SignatureGround(a) ==
    /\ req.hv.ok
    /\ req.Signature # <<>> \/ req.Authorization = <<"Signature", "sig">>
    /\ \E p \in ResolvedPairs : p[1] = a /\ KeyVerifies(p[2], req.hv)

\* C16: LoadActorFromRequest returns an actor other than AnonymousActor only
\* on the ground of a bearer grant whose UserData IRI the store resolved to
\* that actor, or of a signature verified against the key resolved for its
\* key id, the actor being the one resolved with that key.
C16_AuthenticationIsSound ==
    (Done("LoadActorFromRequest") /\ ret.act # Ptr(AnonymousActor))
    => /\ ret.err = NoErr /\ ~ret.act.nil
       /\ BearerGround(ret.act.v) \/ SignatureGround(ret.act.v)

C16_Witness ==
    /\ Done("LoadActorFromRequest") /\ ret.act # Ptr(AnonymousActor)
    /\ SignatureGround(ret.act.v) /\ Called("CtxLoadIRI")
    /\ ret.calls[Len(ret.calls)].e = "owner"

\* the store holds an actor for the key IRI
LocalHit == cfg.st # "nil" /\ Called("Load") /\ env.load.err = NoErr /\ env.load.it.t = "actor"
IsRemoteCall(c) == c.fn \in {"CtxGet", "CtxLoadIRI"}

\* C17: in LoadActorFromKeyIRI the store lookup comes before every remote
\* call; when it yields an actor, that actor and its key are returned and no
\* remote call is made; a remote call is made only after the lookup failed.
C17_LocalBeforeRemote ==
    Done("LoadActorFromKeyIRI")
    => /\ \A m, n \in DOMAIN ret.calls :
             (ret.calls[m].fn = "Load" /\ IsRemoteCall(ret.calls[n])) => m < n
       /\ NumCalls(ret.calls, "Load") <= 1
       /\ LocalHit => /\ ret.act = Ptr(env.load.it.a)
                      /\ ret.key = Ptr(env.load.it.a.key)
                      /\ ret.err = NoErr
                      /\ \A n \in DOMAIN ret.calls : ~IsRemoteCall(ret.calls[n])
       /\ (\E n \in DOMAIN ret.calls : IsRemoteCall(ret.calls[n]))
          => \/ cfg.st = "nil"
             \/ Called("Load") /\ (env.load.err # NoErr \/ env.load.it.t # "actor")

C17_Witness ==
    /\ Done("LoadActorFromKeyIRI") /\ cfg.c /\ LocalHit
    /\ ret.calls = <<MkCall("Load", Jdoe, "load")>>
    /\ ret.key.v.pem = RSA2

\* C18: the store's Load is given the key IRI without its fragment, the
\* remote calls (CtxGet and the final CtxLoadIRI) the key IRI as it came,
\* fragment included; without a fragment both are the IRI unchanged.
C18_FragmentAsymmetry ==
    Done("LoadActorFromKeyIRI")
    => \A n \in DOMAIN ret.calls :
          LET c == ret.calls[n]
          IN  /\ c.fn = "Load" => c.iri = MkIRI(iri.host, iri.path, "")
              /\ c.fn = "CtxGet" => c.iri = iri
              /\ (c.fn = "CtxLoadIRI" /\ c.e = "iriload") => c.iri = iri
              /\ (iri.frag = "" /\ c.e \in {"load", "get", "iriload"}) => c.iri = iri

C18_Witness ==
    /\ Done("LoadActorFromKeyIRI") /\ iri = JdoeMain
    /\ ret.calls = <<MkCall("Load", Jdoe, "load"), MkCall("CtxGet", JdoeMain, "get"),
                     MkCall("CtxLoadIRI", JdoeMain, "iriload")>>

\* the key id of the request's signature is contained by an entry of the
\* ignore list
KeyIdIgnored ==
    \E n \in DOMAIN cfg.ignore :
        /\ req.hv.keyId.host = cfg.ignore[n].host
        /\ \E k \in 0..Len(req.hv.keyId.path) :
              SubSeq(req.hv.keyId.path, k + 1, k + Len(cfg.ignore[n].path))
                = cfg.ignore[n].path

\* C19 as stated: for a request whose Signature key id is on the ignore list,
\* Verify returns an error without calling the store or the client.
C19_BlockedKeyIdIsNotFetched ==
    (Done("Verify") /\ req.hv.ok /\ KeyIdIgnored)
    => ~ret.panic /\ ret.err # NoErr /\ ret.calls = <<>>

\* C20 as stated: when two requests signed by different actors are verified
\* concurrently through the same verifier, each Verify call that succeeds
\* returns the actor owning the key that verified its own request.
C20_ConcurrentCallsDoNotInterfere ==
    \A p \in Procs :
        (kl.call[p].pc = "done" /\ kl.call[p].ret.err = NoErr)
        => /\ ~kl.call[p].ret.act.nil
           /\ kl.call[p].ret.act.v.key.id = kl.call[p].hv.keyId
           /\ kl.call[p].ret.act.v.key.pem.mat = kl.call[p].hv.mat

\* the outbound HTTP calls of the call that returned
NumRemoteCalls == NumCalls(ret.calls, "CtxGet") + NumCalls(ret.calls, "CtxLoadIRI")

\* C21 as stated: one key resolution makes at most two outbound HTTP calls.
C21_Original ==
    Done("LoadActorFromKeyIRI") => NumRemoteCalls <= 2

\* C21 amended: one key resolution makes at most three outbound HTTP calls:
\* the GET of the key IRI, the load of a key document's owner and, only when
\* that owner could not be loaded as an actor, the load of the key IRI.
C21_AtMostThreeRemoteCalls ==
    Done("LoadActorFromKeyIRI")
    => /\ NumRemoteCalls <= 3
       /\ NumCalls(ret.calls, "CtxGet") <= 1
       /\ NumRemoteCalls = 3
          => /\ GetOk /\ env.get.body.doc = "key"
             /\ env.owner.err # NoErr \/ env.owner.it.t # "actor"

C21_Witness ==
    /\ Done("LoadActorFromKeyIRI") /\ iri = JdoeKey
    /\ ret.calls = <<MkCall("CtxGet", JdoeKey, "get"), MkCall("CtxLoadIRI", Jdoe, "owner"),
                     MkCall("CtxLoadIRI", JdoeKey, "iriload")>>

\* the GET of the key IRI was made and a response with a readable body came back
GotResponse ==
    Called("CtxGet") /\ env.get.err = NoErr /\ ~env.get.nilResp /\ ~env.get.readErr

\* C22: LoadRemoteKey goes on to parse the body for the statuses 200, 410 and
\* 304 and for no other; for any other status it returns an error made from
\* the status, no actor and no key, and does not request the key's owner.
C22_AcceptedStatuses ==
    (Done("LoadActorFromKeyIRI") /\ GotResponse)
    => LET r == LoadRemoteKey(iri, env)
       IN  IF env.get.status \in {200, 410, 304}
           THEN /\ r = LoadRemoteKey(iri, [env EXCEPT !.get.status = 200])
                /\ env.get.body.doc = "actor"
                   => /\ r.err = NoErr /\ r.act = Ptr(env.get.body.act)
                      /\ ret.act = r.act /\ ret.key = r.key /\ ret.err = NoErr
                /\ env.get.body.doc = "key" => CalledWith("CtxLoadIRI", env.get.body.key.owner)
                /\ env.get.body.doc = "junk" => r.err = <<"Parse">>
           ELSE /\ r.err # NoErr /\ r.act.nil /\ r.key.nil
                /\ env.get.status = 404 => r.err = <<"NotFound">>
                /\ r.calls = <<MkCall("CtxGet", iri, "get")>>
                /\ \A n \in DOMAIN ret.calls : ret.calls[n].e # "owner"
                /\ NumCalls(ret.calls, "CtxGet") = 1

C22_Witness ==
    /\ Done("LoadActorFromKeyIRI") /\ GotResponse /\ env.get.status = 404
    /\ env.get.body.doc = "key"
    /\ ret.calls[Len(ret.calls)].e = "iriload"

\* C23: when the context of the inbound request is cancelled while a remote
\* key or actor fetch started by that request is pending, the context of the
\* fetch is done too, so the fetch is aborted by the cancellation and does not
\* go on until its own timeout.
C23_CancellationAbortsFetch ==
    (pc = "fetching" /\ fetch.reqDone) => ctxDone(fetch)

\* the request goes to the bearer verifier
BearerVerified ==
    /\ Done("LoadActorFromRequest") /\ HasHeaders /\ cfg.st = "oauthStore"
    /\ credentialType(req) = <<"Bearer">>
\* the error of the bearer verifier, under the Unauthorized that
\* LoadActorFromRequest wraps it in
VerifyErr == IF ret.err = NoErr THEN NoErr ELSE Tail(ret.err)
\* the representations of UserData that can be read as bytes
ByteLike == {"string", "bytes", "raw", "stringer"}

authOf(sig, authz) == IF sig # <<>> THEN sig ELSE SplitN(authz).auth

\* a failure was logged for a request with a bearer token
BearerLogged ==
    pc = "done" /\ logCtx # NoLog /\ logCtx.Signature = <<>>

\* C25: the header field of the failure log does not contain the credential
\* of the request, the bearer token or the value of the Signature header,
\* and for a bearer token it starts with the scheme name Bearer as sent.
C25_CredentialRedacted ==
    (pc = "done" /\ logCtx # NoLog)
    => /\ Index(logCtx.header, authOf(logCtx.Signature, logCtx.Authorization)) = 0
       /\ BearerLogged => SubSeq(logCtx.header, 1, Len(Bearer)) = Bearer

\* a key resolution, by the resolver or by the key loader, has returned
KeyIRIResolved ==
    pc = "done" /\ op \in {"LoadActorFromKeyIRI", "keyLoader.LoadActorFromKeyIRI"}

\* C26: with neither a store nor a client, LoadActorFromKeyIRI returns the
\* anonymous actor, a nil key and a nil error for every IRI, the IRIs on the
\* ignore list included, and calls neither the store nor the client.
C26_NothingConfiguredIsAnonymous ==
    (KeyIRIResolved /\ cfg.st = "nil" /\ ~cfg.c)
    => /\ ret.act = Ptr(AnonymousActor) /\ ret.key.nil /\ ret.err = NoErr
       /\ ~ret.panic
       /\ ret.calls = <<>> /\ env = Env0

C26_Witness ==
    /\ KeyIRIResolved /\ cfg.st = "nil" /\ ~cfg.c
    /\ op = "keyLoader.LoadActorFromKeyIRI"
    /\ iriIsIgnored(cfg, iri)
    /\ ret.err = NoErr

\* a storage operation of the badger store has returned
StorageOpReturned == bdg.ret.op \in {"SaveAccess", "LoadAccess", "RemoveAccess"}
\* the grant's lifetime ended before now
Expired(g, now) == g.CreatedAt + g.ExpiresIn < now

\* C27: LoadAccess of the badger store returns a not-found error for a token
\* that is not stored, and never returns a grant whose CreatedAt + ExpiresIn
\* lies before the current time with a nil error.
C27_ExpiredTokenIsNotReturned ==
    (bdg.ret.op = "LoadAccess" /\ ~bdg.blocked)
    => /\ ~bdg.ret.grant.set => Kind(bdg.ret.err) \in {"NotFound", "Err"}
       /\ bdg.ret.err = NoErr => ~Expired(bdg.ret.grant, bdg.now)

\* C29: when a storage operation of the badger store has returned, with or
\* without an error, the failure of badger.Open included, the mutex of the
\* store is unlocked.
C29_MutexReleasedAfterOperation ==
    (StorageOpReturned /\ ~bdg.blocked) => ~bdg.m

\* C30: Close and Clone unlock the mutex of the badger store only while a
\* preceding Open holds it: the mutex is never unlocked while unlocked and the
\* database handle is never closed twice.
C30_LockBalance == ~bdg.fatal /\ ~bdg.closedTwice

\* C28: in the filesystem store, once CreateClient(c) has returned nil for a
\* client c that is not nil, GetClient(c.Id) returns a client with the Id,
\* Secret, RedirectUri and UserData of c and a nil error; CreateClient of a
\* nil client pointer returns nil and stores nothing.
C28_ClientRoundTrip ==
    (fst.ret.op = "CreateClient" /\ fst.ret.err = NoErr)
    => IF fst.ret.arg.nil THEN ~fst.ret.changed
       ELSE GetClient(fst, fst.ret.arg.Id) = [client |-> fst.ret.arg, err |-> NoErr]

====
